---- MODULE Spec2Model ----
(***************************************************************************)
(* Travel_companion: the weather-to-recommendation mapping of             *)
(* weather_service.py, the itinerary pipeline of agents.py and the        *)
(* FastAPI endpoints of main.py that wrap them.                           *)
(*                                                                         *)
(* Units.  Temperatures are integers in fortieths of a degree Celsius:    *)
(* Deg(20) is 20.0 C and Deg(20) - Tenths(1) is 19.9 C.  The provider     *)
(* reports one decimal, so the exact midpoint of two provider             *)
(* temperatures is an even number of units.  The code computes the        *)
(* midpoint in binary floating point, where decimals such as 32.3 are not *)
(* exact and (32.3 + -12.3) / 2 is 9.999999999999998: a midpoint one unit *)
(* off the exact one stands for a float that misses it by a rounding      *)
(* error (see Midpoints).  Precipitation is in tenths of a millimetre     *)
(* (Mm(5) is 5.0 mm).  Texts the code inspects character by character     *)
(* (condition texts) are sequences of one-character strings.              *)
(***************************************************************************)
EXTENDS Integers, Sequences, FiniteSets, TLC

VARIABLES
    env,                \* which API keys the environment holds (read at construction)
    genai_config,       \* the generator library's process-wide configuration
    op,                 \* per handler: the entry point it is running
    pc,                 \* per handler: its position in that entry point
    request,            \* per handler: the entry point's input
    calls,              \* per handler: the outbound provider calls issued, in order
    web_results,        \* per handler: local of generate_comprehensive_itinerary
    transport_options,  \* per handler: local of generate_comprehensive_itinerary
    weather_data,       \* per handler: local of generate_comprehensive_itinerary
    itinerary,          \* per handler: what generate_itinerary returned or raised
    response,           \* per handler: the HTTP response of an endpoint
    forecast_day,       \* the provider's record for one day, handed to the per-day step
    midpoint,           \* (max_temp + min_temp) / 2 as computed for that day
    daily,              \* the DailyRecommendation built from it
    trip_conditions,    \* the condition texts handed to _summarize_conditions
    conditions_summary  \* the text it returned

pipevars == <<env, genai_config, op, pc, request, calls, web_results, transport_options,
              weather_data, itinerary, response>>

dayvars == <<forecast_day, midpoint, daily>>

sumvars == <<trip_conditions, conditions_summary>>

vars == <<env, genai_config, op, pc, request, calls, web_results, transport_options,
          weather_data, itinerary, response, forecast_day, midpoint, daily,
          trip_conditions, conditions_summary>>

----------------------------------------------------------------------------
(* Units *)

Deg(d) == d * 40

Tenths(n) == n * 4

\* (max_temp + min_temp) / 2 in exact arithmetic.
Midpoint(max_temp, min_temp) == (max_temp + min_temp) \div 2

\* (max_temp + min_temp) / 2 as a float can come out: exact when both operands
\* are whole degrees (small integers and their sums are exact in binary), else
\* possibly off by a rounding error, smaller than any decimal step, either way.
Midpoints(max_temp, min_temp) ==
    IF max_temp % Deg(1) = 0 /\ min_temp % Deg(1) = 0
    THEN {Midpoint(max_temp, min_temp)}
    ELSE {Midpoint(max_temp, min_temp) + e : e \in {-1, 0, 1}}

Mm(m) == m * 10

----------------------------------------------------------------------------
(* Text: str.lower() and the `in` substring test *)

UpperLetters ==
    <<"A", "B", "C", "D", "E", "F", "G", "H", "I", "J", "K", "L", "M",
      "N", "O", "P", "Q", "R", "S", "T", "U", "V", "W", "X", "Y", "Z">>

LowerLetters ==
    <<"a", "b", "c", "d", "e", "f", "g", "h", "i", "j", "k", "l", "m",
      "n", "o", "p", "q", "r", "s", "t", "u", "v", "w", "x", "y", "z">>

LowerChar(c) ==
    IF \E i \in 1..Len(UpperLetters) : UpperLetters[i] = c
    THEN LowerLetters[CHOOSE i \in 1..Len(UpperLetters) : UpperLetters[i] = c]
    ELSE c

lower(text) == [i \in 1..Len(text) |-> LowerChar(text[i])]

UpperChar(c) ==
    IF \E i \in 1..Len(LowerLetters) : LowerLetters[i] = c
    THEN UpperLetters[CHOOSE i \in 1..Len(LowerLetters) : LowerLetters[i] = c]
    ELSE c

\* str.strip(): leading and trailing blanks removed
RECURSIVE strip(_)
strip(text) ==
    IF text = <<>> THEN text
    ELSE IF Head(text) = " " THEN strip(Tail(text))
    ELSE IF text[Len(text)] = " " THEN strip(SubSeq(text, 1, Len(text) - 1))
    ELSE text

\* str.capitalize(): first character upper-cased, the rest lower-cased
capitalize(text) ==
    [i \in 1..Len(text) |-> IF i = 1 THEN UpperChar(text[i]) ELSE LowerChar(text[i])]

Contains(needle, text) ==
    \E i \in 1..(Len(text) - Len(needle) + 1) :
        SubSeq(text, i, i + Len(needle) - 1) = needle

kw_rain == <<"r", "a", "i", "n">>
kw_drizzle == <<"d", "r", "i", "z", "z", "l", "e">>
kw_shower == <<"s", "h", "o", "w", "e", "r">>
kw_snow == <<"s", "n", "o", "w">>
kw_sun == <<"s", "u", "n">>
kw_clear == <<"c", "l", "e", "a", "r">>
kw_wind == <<"w", "i", "n", "d">>
kw_storm == <<"s", "t", "o", "r", "m">>

----------------------------------------------------------------------------
(* WeatherService.get_clothing_recommendations *)

ClothingBelow0 ==
    <<"Heavy winter coat", "Thermal underlayers", "Winter hat", "Gloves",
      "Scarf", "Insulated boots">>

ClothingBelow10 == <<"Winter coat", "Sweater/layers", "Light gloves", "Warm hat">>

ClothingBelow20 ==
    <<"Light jacket or coat", "Long sleeves", "Light scarf", "Closed-toe shoes">>

ClothingBelow25 ==
    <<"Light layers", "Long or short sleeves", "Light pants or long shorts">>

ClothingFrom25 ==
    <<"Light breathable clothing", "Short sleeves", "Shorts or light pants", "Sun hat">>

RainExtras == <<"Waterproof jacket", "Umbrella", "Waterproof shoes">>

SnowExtras == <<"Waterproof boots", "Snow-appropriate outerwear">>

SunExtras == <<"Sunglasses", "Sunscreen", "Brimmed hat">>

WindExtras == <<"Windbreaker">>

\* Faulty variant: the 20 C boundary tested with <=, so 20.0 C falls in the colder tier.
TemperatureClothing_boundary_le(temp_c) ==
    IF temp_c < Deg(0) THEN ClothingBelow0
    ELSE IF temp_c < Deg(10) THEN ClothingBelow10
    ELSE IF temp_c <= Deg(20) THEN ClothingBelow20
    ELSE IF temp_c < Deg(25) THEN ClothingBelow25
    ELSE ClothingFrom25

\* The temperature branch (if / elif / else on temp_c).
TemperatureClothing(temp_c) ==
    IF temp_c < Deg(0) THEN ClothingBelow0
    ELSE IF temp_c < Deg(10) THEN ClothingBelow10
    ELSE IF temp_c < Deg(20) THEN ClothingBelow20
    ELSE IF temp_c < Deg(25) THEN ClothingBelow25
    ELSE ClothingFrom25

\* The condition branch (if / elif chain on the lower-cased condition).
ConditionClothing(condition) ==
    LET c == lower(condition)
    IN  IF Contains(kw_rain, c) \/ Contains(kw_drizzle, c) \/ Contains(kw_shower, c)
        THEN RainExtras
        ELSE IF Contains(kw_snow, c) THEN SnowExtras
        ELSE IF Contains(kw_sun, c) \/ Contains(kw_clear, c) THEN SunExtras
        ELSE IF Contains(kw_wind, c) THEN WindExtras
        ELSE <<>>

get_clothing_recommendations(temp_c, condition) ==
    TemperatureClothing(temp_c) \o ConditionClothing(condition)

----------------------------------------------------------------------------
(* WeatherService.get_activity_recommendations *)

IndoorAlternatives ==
    <<"Museum visits", "Indoor shopping", "Local food tour", "Cooking classes",
      "Spa treatments", "Art galleries", "Local theaters or performances",
      "Indoor markets">>

GeneralOutdoor ==
    <<"Sightseeing tours", "Walking tours", "Outdoor dining", "Parks and gardens",
      "Photography walks">>

WarmOutdoor == <<"Beach activities", "Outdoor swimming", "Boat tours", "Outdoor cafes">>

MildOutdoor ==
    <<"Hiking", "Biking tours", "Outdoor markets", "Wildlife watching", "Picnics">>

ColdOutdoor == <<"Winter sports", "Scenic drives", "Hot springs (if available)">>

\* Faulty variant: precipitation of exactly 5 mm still counts as good weather.
GoodWeather_precip_le(precip_mm, condition) ==
    /\ precip_mm <= Mm(5)
    /\ ~Contains(kw_rain, condition)
    /\ ~Contains(kw_storm, condition)

\* The condition of the `if` at line 177.
GoodWeather(precip_mm, condition) ==
    /\ precip_mm < Mm(5)
    /\ ~Contains(kw_rain, condition)
    /\ ~Contains(kw_storm, condition)

\* Faulty variant: the temperature tiers are tested with >=, so an average of
\* exactly 20 C gets the beach list and one of exactly 10 C the hiking list.
get_activity_recommendations_ge(fd, avg_temp) ==
    LET condition == lower(fd.condition)
        outdoor_activities ==
            IF GoodWeather(fd.totalprecip_mm, condition)
            THEN GeneralOutdoor \o
                 (IF avg_temp >= Deg(20) THEN WarmOutdoor
                  ELSE IF avg_temp >= Deg(10) THEN MildOutdoor
                  ELSE ColdOutdoor)
            ELSE <<>>
    IN  [recommended |-> IF outdoor_activities # <<>> THEN outdoor_activities
                         ELSE IndoorAlternatives,
         alternatives |-> IF outdoor_activities # <<>> THEN IndoorAlternatives
                          ELSE <<>>]

\* avg_temp is the value line 166 computes from the day's max and min.
get_activity_recommendations(fd, avg_temp) ==
    LET condition == lower(fd.condition)
        outdoor_activities ==
            IF GoodWeather(fd.totalprecip_mm, condition)
            THEN GeneralOutdoor \o
                 (IF avg_temp > Deg(20) THEN WarmOutdoor
                  ELSE IF avg_temp > Deg(10) THEN MildOutdoor
                  ELSE ColdOutdoor)
            ELSE <<>>
    IN  [recommended |-> IF outdoor_activities # <<>> THEN outdoor_activities
                         ELSE IndoorAlternatives,
         alternatives |-> IF outdoor_activities # <<>> THEN IndoorAlternatives
                          ELSE <<>>]

----------------------------------------------------------------------------
(* The body of the per-day loop of WeatherService.format_weather_summary; *)
(* t is the value of (max_temp + min_temp) / 2, which lines 229 and 166    *)
(* compute alike                                                           *)

DailyEntry(fd, t) ==
    LET clothing == get_clothing_recommendations(t, fd.condition)
        activities == get_activity_recommendations(fd, t)
    IN  [date |-> fd.date,
         condition |-> fd.condition,
         max_temp_c |-> fd.maxtemp_c,
         min_temp_c |-> fd.mintemp_c,
         clothing_recommendations |-> clothing,
         activity_recommendations |-> activities.recommended,
         alternative_activities |-> activities.alternatives]

----------------------------------------------------------------------------
(* Function results: a value returned or an exception raised.  Python      *)
(* dicts are functions whose domain is the set of keys present.            *)

Ret(v) == [kind |-> "return", value |-> v]

Raise(e) == [kind |-> "raise", exc |-> e]

HasKey(d, k) == k \in DOMAIN d

RECURSIVE Sum(_)
Sum(xs) == IF xs = <<>> THEN 0 ELSE Head(xs) + Sum(Tail(xs))

Min2(a, b) == IF a < b THEN a ELSE b

Max2(a, b) == IF a > b THEN a ELSE b

----------------------------------------------------------------------------
(* WeatherService._summarize_conditions *)

txt_consistently == <<"C", "o", "n", "s", "i", "s", "t", "e", "n", "t", "l", "y", " ">>

txt_throughout ==
    <<" ", "t", "h", "r", "o", "u", "g", "h", "o", "u", "t", " ", "y", "o", "u", "r",
      " ", "t", "r", "i", "p">>

txt_mostly == <<"M", "o", "s", "t", "l", "y", " ">>

txt_with_some == <<" ", "w", "i", "t", "h", " ", "s", "o", "m", "e", " ">>

txt_variable ==
    <<"V", "a", "r", "i", "a", "b", "l", "e", " ", "c", "o", "n", "d", "i", "t", "i",
      "o", "n", "s", " ", "i", "n", "c", "l", "u", "d", "i", "n", "g", " ">>

txt_comma == <<",", " ">>

\* ", ".join(parts)
RECURSIVE Join(_)
Join(parts) ==
    IF parts = <<>> THEN <<>>
    ELSE IF Len(parts) = 1 THEN parts[1]
    ELSE parts[1] \o txt_comma \o Join(Tail(parts))

\* The keys of condition_counts in insertion order (lines 272-274).
RECURSIVE CountKeys(_, _)
CountKeys(conditions, seen) ==
    IF conditions = <<>> THEN seen
    ELSE IF \E i \in 1..Len(seen) : seen[i] = Head(conditions)
         THEN CountKeys(Tail(conditions), seen)
         ELSE CountKeys(Tail(conditions), Append(seen, Head(conditions)))

CountOf(conditions, c) == Cardinality({i \in 1..Len(conditions) : conditions[i] = c})

\* sorted(items, key=count, reverse=True): stable, so equal counts keep
\* insertion order.  Built by repeatedly taking the first key of maximal count.
RECURSIVE SortByCount(_, _)
SortByCount(keys, conditions) ==
    IF keys = <<>> THEN <<>>
    ELSE LET best == CHOOSE i \in 1..Len(keys) :
                        /\ \A j \in 1..Len(keys) :
                               CountOf(conditions, keys[j]) <= CountOf(conditions, keys[i])
                        /\ \A j \in 1..(i - 1) :
                               CountOf(conditions, keys[j]) < CountOf(conditions, keys[i])
             rest == [j \in 1..(Len(keys) - 1) |-> IF j < best THEN keys[j] ELSE keys[j + 1]]
         IN  <<keys[best]>> \o SortByCount(rest, conditions)

\* Faulty variant: the main condition must cover more than half of the days.
summarize_conditions_strict_half(conditions) ==
    LET sorted_conditions == SortByCount(CountKeys(conditions, <<>>), conditions)
        total_days == Len(conditions)
        main_condition == sorted_conditions[1]
        main_count == CountOf(conditions, main_condition)
    IN  IF Len(sorted_conditions) = 1
        THEN txt_consistently \o sorted_conditions[1] \o txt_throughout
        ELSE IF 2 * main_count > total_days
        THEN txt_mostly \o main_condition \o txt_with_some \o Join(Tail(sorted_conditions))
        ELSE txt_variable \o Join(SubSeq(sorted_conditions, 1, Min2(3, Len(sorted_conditions))))

summarize_conditions(conditions) ==
    LET sorted_conditions == SortByCount(CountKeys(conditions, <<>>), conditions)
        total_days == Len(conditions)
        main_condition == sorted_conditions[1]
        main_count == CountOf(conditions, main_condition)
    IN  IF Len(sorted_conditions) = 1
        THEN txt_consistently \o sorted_conditions[1] \o txt_throughout
        ELSE IF 2 * main_count >= total_days
        THEN txt_mostly \o main_condition \o txt_with_some \o Join(Tail(sorted_conditions))
        ELSE txt_variable \o Join(SubSeq(sorted_conditions, 1, Min2(3, Len(sorted_conditions))))

----------------------------------------------------------------------------
(* WeatherService.format_weather_summary.  A forecast payload is a dict    *)
(* with keys among location, forecast and error; forecast.forecastday is   *)
(* the sequence of days, each day flattened to date, condition,            *)
(* maxtemp_c, mintemp_c and totalprecip_mm.                                *)

ForecastDays(forecast) ==
    IF HasKey(forecast, "forecast") THEN forecast.forecast.forecastday ELSE <<>>

\* The loop of lines 221-243: one entry is appended for each of the first n days.
RECURSIVE DailyForecasts(_, _)
DailyForecasts(days, n) ==
    IF n = 0 THEN <<>>
    ELSE Append(DailyForecasts(days, n - 1),
                DailyEntry(days[n], Midpoint(days[n].maxtemp_c, days[n].mintemp_c)))

\* Faulty variant: the means are guarded against an empty list, so a payload
\* without days yields a summary of zero days.
format_weather_summary_guarded_mean(forecast, duration) ==
    LET actual_days == Min2(duration, Len(ForecastDays(forecast)))
        daily_forecasts ==
            DailyForecasts(ForecastDays(forecast), actual_days)
        conditions == [i \in 1..actual_days |-> daily_forecasts[i].condition]
        max_temps == [i \in 1..actual_days |-> daily_forecasts[i].max_temp_c]
        min_temps == [i \in 1..actual_days |-> daily_forecasts[i].min_temp_c]
    IN  IF ~HasKey(forecast, "location") THEN Raise("KeyError")
        ELSE Ret([location |-> <<forecast.location.name, ", ", forecast.location.country>>,
                  forecast_days |-> actual_days,
                  avg_max_temp_c |-> [sum |-> Sum(max_temps), count |-> Len(max_temps)],
                  avg_min_temp_c |-> [sum |-> Sum(min_temps), count |-> Len(min_temps)],
                  conditions_summary |->
                      IF actual_days = 0 THEN <<>> ELSE summarize_conditions(conditions),
                  daily_forecasts |-> daily_forecasts])

\* Faulty variant: the loop runs over range(duration), so a forecast shorter than
\* the trip raises IndexError.
format_weather_summary_range_duration(forecast, duration) ==
    LET actual_days == Min2(duration, Len(ForecastDays(forecast)))
        daily_forecasts ==
            DailyForecasts(ForecastDays(forecast), actual_days)
        conditions == [i \in 1..actual_days |-> daily_forecasts[i].condition]
        max_temps == [i \in 1..actual_days |-> daily_forecasts[i].max_temp_c]
        min_temps == [i \in 1..actual_days |-> daily_forecasts[i].min_temp_c]
    IN  IF duration > Len(ForecastDays(forecast)) THEN Raise("IndexError")
        ELSE IF ~HasKey(forecast, "location") THEN Raise("KeyError")
        ELSE IF Len(max_temps) = 0 THEN Raise("ZeroDivisionError")
        ELSE Ret([location |-> <<forecast.location.name, ", ", forecast.location.country>>,
                  forecast_days |-> actual_days,
                  avg_max_temp_c |-> [sum |-> Sum(max_temps), count |-> Len(max_temps)],
                  avg_min_temp_c |-> [sum |-> Sum(min_temps), count |-> Len(min_temps)],
                  conditions_summary |-> summarize_conditions(conditions),
                  daily_forecasts |-> daily_forecasts])

format_weather_summary(forecast, duration) ==
    LET actual_days == Min2(duration, Len(ForecastDays(forecast)))
        \* the forecast answers of the handlers carry whole degrees: exact midpoints
        daily_forecasts ==
            DailyForecasts(ForecastDays(forecast), actual_days)
        conditions == [i \in 1..actual_days |-> daily_forecasts[i].condition]
        max_temps == [i \in 1..actual_days |-> daily_forecasts[i].max_temp_c]
        min_temps == [i \in 1..actual_days |-> daily_forecasts[i].min_temp_c]
    IN  IF ~HasKey(forecast, "location") THEN Raise("KeyError")
        ELSE IF Len(max_temps) = 0 THEN Raise("ZeroDivisionError")
        ELSE Ret([location |-> <<forecast.location.name, ", ", forecast.location.country>>,
                  forecast_days |-> actual_days,
                  avg_max_temp_c |-> [sum |-> Sum(max_temps), count |-> Len(max_temps)],
                  avg_min_temp_c |-> [sum |-> Sum(min_temps), count |-> Len(min_temps)],
                  conditions_summary |-> summarize_conditions(conditions),
                  daily_forecasts |-> daily_forecasts])

----------------------------------------------------------------------------
(* Bounds of the model *)

MaxResults == 1         \* organic results the search provider returns at most

MaxForecastDays == 2    \* forecast days the weather provider returns at most

MaxDuration == 2        \* trip durations 1..MaxDuration are tried, and MaxApiDuration

MaxApiDuration == 45    \* the largest duration the API accepts

MaxClampDays == 10      \* get_weather_forecast asks for at most this many days

----------------------------------------------------------------------------
(* What the providers can answer.  An answer is [kind |-> "ok", json |-> _],*)
(* [kind |-> "RequestException"] (requests raised: timeout, connection,    *)
(* HTTP status) or [kind |-> "Exception"] (anything else raised while the  *)
(* response is read).                                                      *)

RECURSIVE SeqsUpTo(_, _)
SeqsUpTo(S, n) ==
    IF n = 0 THEN {<<>>}
    ELSE LET shorter == SeqsUpTo(S, n - 1)
         IN  shorter \cup {Append(s, x) : s \in {t \in shorter : Len(t) = n - 1}, x \in S}

\* weather provider, search.json
LocationAnswers ==
    {[kind |-> "ok", json |-> <<>>],
     [kind |-> "ok", json |-> <<[name |-> "match1"]>>],
     [kind |-> "ok", json |-> <<[name |-> "match1"], [name |-> "match2"]>>],
     [kind |-> "RequestException"],
     [kind |-> "Exception"]}

\* search provider: a result may lack fields, the payload may lack organic_results
RawResults == {[title |-> "t1", link |-> "l1"]}

SearchAnswers ==
    {[kind |-> "ok", json |-> [organic_results |-> r]] : r \in SeqsUpTo(RawResults, MaxResults)}
    \cup {[kind |-> "ok", json |-> [search_metadata |-> "m"]]}
    \cup {[kind |-> "RequestException"]}

\* weather provider, forecast.json
cond_sunny == <<"S", "u", "n", "n", "y">>

cond_partly_cloudy == <<"P", "a", "r", "t", "l", "y", " ", "c", "l", "o", "u", "d", "y">>

cond_rain_wind ==
    <<"L", "i", "g", "h", "t", " ", "R", "a", "i", "n", " ", "a", "n", "d", " ",
      "W", "i", "n", "d">>

SampleDays ==
    {[condition |-> cond_rain_wind, maxtemp_c |-> Deg(0), mintemp_c |-> Deg(-5),
      totalprecip_mm |-> Mm(6)],
     [condition |-> cond_partly_cloudy, maxtemp_c |-> Deg(30), mintemp_c |-> Deg(25),
      totalprecip_mm |-> Mm(5) - 1]}

Dated(days) ==
    [i \in 1..Len(days) |->
        [date |-> <<"day", i>>, condition |-> days[i].condition,
         maxtemp_c |-> days[i].maxtemp_c, mintemp_c |-> days[i].mintemp_c,
         totalprecip_mm |-> days[i].totalprecip_mm]]

\* a well-formed day, also the day variables' value while no day is summarized
IdleDay ==
    [date |-> <<"day", 1>>, condition |-> cond_sunny, maxtemp_c |-> Deg(22),
     mintemp_c |-> Deg(15), totalprecip_mm |-> Mm(0)]

ForecastLocation == [name |-> "Name", country |-> "Country"]

ForecastAnswers ==
    {[kind |-> "ok",
      json |-> [location |-> ForecastLocation, forecast |-> [forecastday |-> Dated(d)]]] :
        d \in SeqsUpTo(SampleDays, MaxForecastDays)}
    \cup {[kind |-> "ok", json |-> [forecast |-> [forecastday |-> Dated(<<IdleDay>>)]]],
          [kind |-> "ok", json |-> [error |-> <<"provider error">>]],
          [kind |-> "ok", json |-> [location |-> ForecastLocation]],
          [kind |-> "RequestException"], [kind |-> "Exception"]}

\* text generator
GeneratorAnswers ==
    {[kind |-> "ok", text |-> "generated text"],
     [kind |-> "Exception", message |-> "generator unavailable"]}

----------------------------------------------------------------------------
(* WeatherService: the provider calls *)

\* Faulty variant: a failed request is answered with an empty dict, which carries
\* no error key.
get_basic_location_data_no_error_key(location, answer) ==
    IF answer.kind = "RequestException" THEN Ret([unknown |-> TRUE])
    ELSE IF answer.kind = "Exception" THEN Raise("Exception")
    ELSE IF answer.json = <<>>
    THEN Ret([error |-> <<"Location '", location, "' not found">>])
    ELSE Ret([location |-> answer.json[1]])

get_basic_location_data(location, answer) ==
    IF answer.kind = "RequestException"
    THEN Ret([error |-> <<"Location validation failed: ", "RequestException">>])
    ELSE IF answer.kind = "Exception" THEN Raise("Exception")
    ELSE IF answer.json = <<>>
    THEN Ret([error |-> <<"Location '", location, "' not found">>])
    ELSE Ret([location |-> answer.json[1]])

WeatherService_validate_location(location, answer) ==
    LET result == get_basic_location_data(location, answer)
    IN  IF result.kind = "raise" THEN [valid |-> FALSE, reason |-> <<result.exc>>]
        ELSE IF HasKey(result.value, "error")
        THEN [valid |-> FALSE, reason |-> result.value.error]
        ELSE [valid |-> TRUE]

\* days = min(max(days, 1), 10)
ClampDays(days) == Min2(Max2(days, 1), MaxClampDays)

get_weather_forecast(location, days, answer) ==
    IF answer.kind = "RequestException"
    THEN Ret([error |-> <<"Failed to fetch weather data">>, details |-> "RequestException"])
    ELSE IF answer.kind = "Exception" THEN Raise("Exception")
    ELSE Ret(answer.json)

----------------------------------------------------------------------------
(* WebSearchAgent *)

\* Faulty variant: the default of .get("valid", ...) is True and a location the
\* provider could not be asked about passes.
validate_location_fail_open(location, answer) ==
    LET validation_result == WeatherService_validate_location(location, answer)
    IN  IF answer.kind # "ok" THEN TRUE
        ELSE IF HasKey(validation_result, "valid") THEN validation_result.valid ELSE TRUE

WebSearchAgent_validate_location(location, answer) ==
    LET validation_result == WeatherService_validate_location(location, answer)
    IN  IF HasKey(validation_result, "valid") THEN validation_result.valid ELSE FALSE

\* result.get(key, '')
GetOrEmpty(result, key) == IF HasKey(result, key) THEN result[key] ELSE ""

\* Faulty variant: the RequestException is not caught.
perform_web_search_propagates(serpapi_key, query, num_results, answer) ==
    IF ~serpapi_key THEN Raise("ValueError")
    ELSE IF answer.kind = "RequestException" THEN Raise("RequestException")
    ELSE LET results == IF HasKey(answer.json, "organic_results")
                        THEN answer.json.organic_results ELSE <<>>
         IN  Ret([i \in 1..Len(results) |->
                    [title |-> GetOrEmpty(results[i], "title"),
                     link |-> GetOrEmpty(results[i], "link"),
                     snippet |-> GetOrEmpty(results[i], "snippet"),
                     source |-> GetOrEmpty(results[i], "source")]])

\* Raises without calling the provider when the API key is missing.
perform_web_search(serpapi_key, query, num_results, answer) ==
    IF ~serpapi_key THEN Raise("ValueError")
    ELSE IF answer.kind = "RequestException" THEN Ret(<<>>)
    ELSE LET results == IF HasKey(answer.json, "organic_results")
                        THEN answer.json.organic_results ELSE <<>>
         IN  Ret([i \in 1..Len(results) |->
                    [title |-> GetOrEmpty(results[i], "title"),
                     link |-> GetOrEmpty(results[i], "link"),
                     snippet |-> GetOrEmpty(results[i], "snippet"),
                     source |-> GetOrEmpty(results[i], "source")]])

\* Faulty variant: a failed fetch yields a summary of zero days instead of an
\* error object.
get_weather_data_empty_summary(destination, duration, answer) ==
    LET forecast == get_weather_forecast(destination, duration, answer)
    IN  IF forecast.kind = "raise" \/ HasKey(forecast.value, "error")
        THEN [forecast_days |-> 0, daily_forecasts |-> <<>>]
        ELSE LET summary == format_weather_summary(forecast.value, duration)
             IN  IF summary.kind = "raise"
                 THEN [error |-> <<"Weather data retrieval failed: ", summary.exc>>]
                 ELSE summary.value

get_weather_data(destination, duration, answer) ==
    LET forecast == get_weather_forecast(destination, duration, answer)
    IN  IF forecast.kind = "raise"
        THEN [error |-> <<"Weather data retrieval failed: ", forecast.exc>>]
        ELSE IF HasKey(forecast.value, "error")
        THEN [error |-> forecast.value.error]
        ELSE LET summary == format_weather_summary(forecast.value, duration)
             IN  IF summary.kind = "raise"
                 THEN [error |-> <<"Weather data retrieval failed: ", summary.exc>>]
                 ELSE summary.value

TransportQuery(source, destination) ==
    <<"How to travel from ", source, " to ", destination, " transportation options">>

get_transport_options(serpapi_key, source, destination, answer) ==
    LET transport_results ==
            perform_web_search(serpapi_key, TransportQuery(source, destination), 3, answer)
    IN  IF transport_results.kind = "raise" THEN <<>> ELSE transport_results.value

----------------------------------------------------------------------------
(* Handlers and their inputs *)

Handlers == {"h1", "h2"}

\* The handlers that run under Spec: one request at a time.
MainHandlers == {"h1"}

\* Python's None, as a text no location is called.
None == "<None>"

\* Faulty variant: the source is tested with `is not None`, so "" counts as given.
Truthy_not_none(s) == s # None

\* Python truthiness of an optional string.
Truthy(s) == s # None /\ s # ""

Destinations == {"Paris"}

Sources == {None, "", "Pune"}

Durations == (1..MaxDuration) \cup {MaxApiDuration}

TravelRequests ==
    [source : Sources, destination : Destinations, duration : Durations,
     budget : {3000}, interests : {<<"Food">>}, accommodation : {"Budget"},
     dietary : {"No restrictions"}]

\* TravelRequestModel as POST /generate_itinerary receives it: a source, when
\* given, has at least two characters; interests are as typed.
raw_interest == <<" ", "f", "O", "o", "d", " ">>

ItineraryRequests ==
    [source : {None, "Pune"}, destination : Destinations, duration : {1},
     budget : {3000}, interests : {<<raw_interest>>}, accommodation : {"Budget"},
     dietary : {None}, start_date : {None},
     weather_preference : {"Balance indoor/outdoor activities"}]

TransportRequests == [source : {"Pune", "Xy"}, destination : Destinations]

LocationRequests == [location : {"Paris", "Goa", ""}]

Pending == [kind |-> "pending"]

NoRequest == [none |-> TRUE]

NoWeather == [pending |-> TRUE]

Http(code, body) == [kind |-> "http", status_code |-> code, body |-> body]

\* raise HTTPException(status_code=500, detail={...})
Http500(message, exc) ==
    Http(500, [detail |-> [status |-> "error", message |-> message, details |-> exc]])

InvalidLocationDetails(location) ==
    <<"'", location, "' does not appear to be a valid location">>

\* An entry of the call log: the request sent, the provider's answer and, for
\* a location search, what validate_location made of it.
LocationCall(location, answer) ==
    [api |-> "location_search", q |-> location, answer |-> answer,
     valid |-> WebSearchAgent_validate_location(location, answer)]

SearchCall(query, num_results, answer) ==
    [api |-> "web_search", q |-> query, num |-> num_results, answer |-> answer]

ForecastCall(location, days, answer) ==
    [api |-> "forecast", q |-> location, days |-> ClampDays(days), answer |-> answer]

GenerateCall(prompt, answer) ==
    [api |-> "generate_content", prompt |-> prompt, answer |-> answer]

Issue(h, call) == calls' = [calls EXCEPT ![h] = Append(@, call)]

Goto(h, label) == pc' = [pc EXCEPT ![h] = label]

\* generate_itinerary returns or raises; under POST /generate_itinerary the
\* endpoint goes on with what came back.
Finish(h, outcome) ==
    /\ itinerary' = [itinerary EXCEPT ![h] = outcome]
    /\ Goto(h, IF op[h] = "create_itinerary" THEN "respond" ELSE "done")

\* An endpoint responds.
Respond(h, http) ==
    /\ response' = [response EXCEPT ![h] = http]
    /\ Goto(h, "done")

----------------------------------------------------------------------------
(* Initial state *)

\* the environment with every API key set
AllKeys == [SERPAPI_KEY |-> TRUE, WEATHER_API_KEY |-> TRUE, GENAI_API_KEY |-> TRUE]

\* genai.configure has not been called in this process
Unconfigured == [configured |-> FALSE, api_key |-> FALSE]

InitHandlers ==
    /\ genai_config = Unconfigured
    /\ op = [h \in Handlers |-> "none"]
    /\ pc = [h \in Handlers |-> "idle"]
    /\ request = [h \in Handlers |-> NoRequest]
    /\ calls = [h \in Handlers |-> <<>>]
    /\ web_results = [h \in Handlers |-> <<>>]
    /\ transport_options = [h \in Handlers |-> <<>>]
    /\ weather_data = [h \in Handlers |-> NoWeather]
    /\ itinerary = [h \in Handlers |-> Pending]
    /\ response = [h \in Handlers |-> Pending]

NoDaily == [pending |-> TRUE]

\* no text: _summarize_conditions has not returned
NoSummary == <<>>

IdleDayVars ==
    /\ forecast_day = IdleDay
    /\ midpoint = Midpoint(IdleDay.maxtemp_c, IdleDay.mintemp_c)
    /\ daily = NoDaily

IdleSummaryVars ==
    /\ trip_conditions = <<>>
    /\ conditions_summary = NoSummary

Init ==
    /\ env \in [SERPAPI_KEY : BOOLEAN, WEATHER_API_KEY : BOOLEAN, GENAI_API_KEY : BOOLEAN]
    /\ InitHandlers
    /\ IdleDayVars
    /\ IdleSummaryVars

----------------------------------------------------------------------------
(* Entry points *)

\* agents.generate_itinerary(travel_request), as the form of app.py calls it
Call_generate_itinerary(h) ==
    /\ pc[h] = "idle"
    /\ \E r \in TravelRequests : request' = [request EXCEPT ![h] = r]
    /\ op' = [op EXCEPT ![h] = "generate_itinerary"]
    /\ Goto(h, "construct")
    /\ UNCHANGED <<env, genai_config, calls, web_results, transport_options, weather_data, itinerary,
                   response, dayvars, sumvars>>

\* POST /transportation_options
Post_transportation_options(h) ==
    /\ pc[h] = "idle"
    /\ \E r \in TransportRequests : request' = [request EXCEPT ![h] = r]
    /\ op' = [op EXCEPT ![h] = "transportation_options"]
    /\ Goto(h, "construct")
    /\ UNCHANGED <<env, genai_config, calls, web_results, transport_options, weather_data, itinerary,
                   response, dayvars, sumvars>>

\* POST /validate_location
Post_validate_location(h) ==
    /\ pc[h] = "idle"
    /\ \E r \in LocationRequests : request' = [request EXCEPT ![h] = r]
    /\ op' = [op EXCEPT ![h] = "validate_location"]
    /\ Goto(h, "construct")
    /\ UNCHANGED <<env, genai_config, calls, web_results, transport_options, weather_data, itinerary,
                   response, dayvars, sumvars>>

\* POST /generate_itinerary, lines 97-103: the request as a dict, each interest
\* stripped and capitalized
Post_generate_itinerary(h) ==
    /\ pc[h] = "idle"
    /\ \E r \in ItineraryRequests :
         LET interests == [i \in 1..Len(r.interests) |-> capitalize(strip(r.interests[i]))]
         IN  request' = [request EXCEPT ![h] = [r EXCEPT !.interests = interests]]
    /\ op' = [op EXCEPT ![h] = "create_itinerary"]
    /\ Goto(h, "construct")
    /\ UNCHANGED <<env, genai_config, calls, web_results, transport_options, weather_data, itinerary,
                   response, dayvars, sumvars>>

FirstStep(entry) ==
    IF entry \in {"generate_itinerary", "create_itinerary"} THEN "validate_destination"
    ELSE IF entry = "transportation_options" THEN "to_validate_source"
    ELSE "vl_validate"

FailureMessage(entry) ==
    IF entry = "transportation_options" THEN "Transportation options retrieval failed"
    ELSE IF entry = "create_itinerary" THEN "Itinerary generation failed"
    ELSE "Location validation failed"

\* WebSearchAgent(): genai.configure sets the library's process-wide API key
\* from the environment, then WeatherService() raises ValueError without its API
\* key.  generate_itinerary lets it propagate; an endpoint turns it into HTTP 500.
Construct(h) ==
    /\ pc[h] = "construct"
    /\ genai_config' = [configured |-> TRUE, api_key |-> env.GENAI_API_KEY]
    /\ IF ~env.WEATHER_API_KEY
       THEN IF op[h] = "generate_itinerary"
            THEN Finish(h, Raise("ValueError")) /\ UNCHANGED response
            ELSE Respond(h, Http500(FailureMessage(op[h]), "ValueError"))
                 /\ UNCHANGED itinerary
       ELSE Goto(h, FirstStep(op[h])) /\ UNCHANGED <<itinerary, response>>
    /\ UNCHANGED <<env, op, request, calls, web_results, transport_options,
                   weather_data, dayvars, sumvars>>

----------------------------------------------------------------------------
(* WebSearchAgent.generate_comprehensive_itinerary, one action per        *)
(* outbound call together with the control flow that follows it            *)

GuideQuery(travel_request) ==
    <<"Best travel guide for ", travel_request.destination, " ", travel_request.interests>>

\* lines 124-132: validate the destination
ValidateDestination(h) ==
    /\ pc[h] = "validate_destination"
    /\ \E answer \in LocationAnswers :
        LET source == request[h].source
            destination == request[h].destination
        IN  /\ Issue(h, LocationCall(destination, answer))
            /\ IF ~WebSearchAgent_validate_location(destination, answer)
               THEN Finish(h, Ret([error |-> "Invalid destination",
                                   details |-> InvalidLocationDetails(destination)]))
               ELSE /\ Goto(h, IF Truthy(source) THEN "validate_source" ELSE "web_search")
                    /\ UNCHANGED itinerary
    /\ UNCHANGED <<env, genai_config, op, request, web_results, transport_options, weather_data,
                   response, dayvars, sumvars>>

\* lines 135-139: validate the source, reached only with a truthy source
ValidateSource(h) ==
    /\ pc[h] = "validate_source"
    /\ \E answer \in LocationAnswers :
        LET source == request[h].source
        IN  /\ Issue(h, LocationCall(source, answer))
            /\ IF ~WebSearchAgent_validate_location(source, answer)
               THEN Finish(h, Ret([error |-> "Invalid source location",
                                   details |-> InvalidLocationDetails(source)]))
               ELSE Goto(h, "web_search") /\ UNCHANGED itinerary
    /\ UNCHANGED <<env, genai_config, op, request, web_results, transport_options, weather_data,
                   response, dayvars, sumvars>>

\* Faulty variant: the transport search follows whether or not a source was given.
WebSearch_transport_unconditional(h) ==
    /\ pc[h] = "web_search"
    /\ \E answer \in SearchAnswers :
        LET search_query == GuideQuery(request[h])
            found == perform_web_search(env.SERPAPI_KEY, search_query, 5, answer)
        IN  /\ IF env.SERPAPI_KEY THEN Issue(h, SearchCall(search_query, 5, answer))
               ELSE UNCHANGED calls
            /\ IF found.kind = "raise"
               THEN /\ Finish(h, Raise(found.exc))
                    /\ UNCHANGED web_results
               ELSE /\ web_results' = [web_results EXCEPT ![h] = found.value]
                    /\ Goto(h, "transport_options")
                    /\ UNCHANGED itinerary
    /\ UNCHANGED <<env, genai_config, op, request, transport_options, weather_data, response, dayvars, sumvars>>

\* Faulty variant: the forecast is fetched right after the destination search and
\* the transport search is left out.
WebSearch_weather_next(h) ==
    /\ pc[h] = "web_search"
    /\ \E answer \in SearchAnswers :
        LET search_query == GuideQuery(request[h])
            found == perform_web_search(env.SERPAPI_KEY, search_query, 5, answer)
        IN  /\ IF env.SERPAPI_KEY THEN Issue(h, SearchCall(search_query, 5, answer))
               ELSE UNCHANGED calls
            /\ IF found.kind = "raise"
               THEN /\ Finish(h, Raise(found.exc))
                    /\ UNCHANGED web_results
               ELSE /\ web_results' = [web_results EXCEPT ![h] = found.value]
                    /\ Goto(h, "weather")
                    /\ UNCHANGED itinerary
    /\ UNCHANGED <<env, genai_config, op, request, transport_options, weather_data, response,
                   dayvars, sumvars>>

\* Faulty variant: the search results are kept on an agent every request shares.
WebSearch_shared_results(h) ==
    /\ pc[h] = "web_search"
    /\ \E answer \in SearchAnswers :
        LET search_query == GuideQuery(request[h])
            found == perform_web_search(env.SERPAPI_KEY, search_query, 5, answer)
        IN  /\ IF env.SERPAPI_KEY THEN Issue(h, SearchCall(search_query, 5, answer))
               ELSE UNCHANGED calls
            /\ IF found.kind = "raise"
               THEN /\ Finish(h, Raise(found.exc))
                    /\ UNCHANGED web_results
               ELSE /\ web_results' = [g \in Handlers |-> found.value]
                    /\ Goto(h, IF Truthy(request[h].source) THEN "transport_options"
                               ELSE "weather")
                    /\ UNCHANGED itinerary
    /\ UNCHANGED <<env, genai_config, op, request, transport_options, weather_data, response,
                   dayvars, sumvars>>

\* lines 142-147: the destination search; a ValueError of perform_web_search
\* is not caught here and leaves generate_itinerary
WebSearch(h) ==
    /\ pc[h] = "web_search"
    /\ \E answer \in SearchAnswers :
        LET search_query == GuideQuery(request[h])
            found == perform_web_search(env.SERPAPI_KEY, search_query, 5, answer)
        IN  /\ IF env.SERPAPI_KEY THEN Issue(h, SearchCall(search_query, 5, answer))
               ELSE UNCHANGED calls
            /\ IF found.kind = "raise"
               THEN /\ Finish(h, Raise(found.exc))
                    /\ UNCHANGED web_results
               ELSE /\ web_results' = [web_results EXCEPT ![h] = found.value]
                    /\ Goto(h, IF Truthy(request[h].source) THEN "transport_options"
                               ELSE "weather")
                    /\ UNCHANGED itinerary
    /\ UNCHANGED <<env, genai_config, op, request, transport_options, weather_data, response, dayvars, sumvars>>

\* line 148: the transport search, reached only with a truthy source
TransportOptions(h) ==
    /\ pc[h] = "transport_options"
    /\ \E answer \in SearchAnswers :
        LET source == request[h].source
            destination == request[h].destination
        IN  /\ transport_options' =
                 [transport_options EXCEPT
                    ![h] = get_transport_options(env.SERPAPI_KEY, source, destination, answer)]
            /\ IF env.SERPAPI_KEY
               THEN Issue(h, SearchCall(TransportQuery(source, destination), 3, answer))
               ELSE UNCHANGED calls
    /\ Goto(h, "weather")
    /\ UNCHANGED <<env, genai_config, op, request, web_results, weather_data, itinerary, response,
                   dayvars, sumvars>>

\* Faulty variant: a failed forecast fetch is tried again.
Weather_retries(h) ==
    /\ pc[h] = "weather"
    /\ \E answer \in ForecastAnswers :
        LET destination == request[h].destination
            duration == request[h].duration
        IN  /\ Issue(h, ForecastCall(destination, duration, answer))
            /\ weather_data' =
                 [weather_data EXCEPT ![h] = get_weather_data(destination, duration, answer)]
            /\ Goto(h, IF answer.kind = "RequestException" THEN "weather" ELSE "generate")
    /\ UNCHANGED <<env, genai_config, op, request, web_results, transport_options, itinerary,
                   response, dayvars, sumvars>>

\* lines 151-154: the forecast fetch and its summary
Weather(h) ==
    /\ pc[h] = "weather"
    /\ \E answer \in ForecastAnswers :
        LET destination == request[h].destination
            duration == request[h].duration
        IN  /\ Issue(h, ForecastCall(destination, duration, answer))
            /\ weather_data' =
                 [weather_data EXCEPT ![h] = get_weather_data(destination, duration, answer)]
    /\ Goto(h, "generate")
    /\ UNCHANGED <<env, genai_config, op, request, web_results, transport_options, itinerary, response,
                   dayvars, sumvars>>

\* lines 157-197: what the prompt interpolates
Prompt(travel_request, weather, web, transport) ==
    LET source == travel_request.source
    IN  [duration |-> travel_request.duration,
         destination |-> travel_request.destination,
         source_info |-> IF Truthy(source) THEN <<"Starting from ", source>>
                         ELSE <<"No specific starting location provided">>,
         budget |-> travel_request.budget,
         interests |-> travel_request.interests,
         accommodation |-> travel_request.accommodation,
         dietary |-> travel_request.dietary,
         weather_forecast |-> weather,
         web_search_insights |-> web,
         transportation |-> IF Truthy(source) THEN <<transport>> ELSE <<>>]

\* Faulty variant: the generator's exception is re-raised.
GenerationResult_raises(source, answer, web, weather, transport) ==
    IF answer.kind = "ok"
    THEN Ret([ai_generated_itinerary |-> answer.text,
              web_search_context |-> web,
              weather_data |-> weather,
              transport_options |-> IF Truthy(source) THEN transport ELSE <<>>])
    ELSE Raise(answer.kind)

\* lines 199-215: the try block around the generator call
GenerationResult(source, answer, web, weather, transport) ==
    IF answer.kind = "ok"
    THEN Ret([ai_generated_itinerary |-> answer.text,
              web_search_context |-> web,
              weather_data |-> weather,
              transport_options |-> IF Truthy(source) THEN transport ELSE <<>>])
    ELSE Ret([error |-> "Itinerary generation failed", details |-> answer.message])

\* The generator answers with a text only under a configured API key.
Generate(h) ==
    /\ pc[h] = "generate"
    /\ \E answer \in GeneratorAnswers :
        /\ answer.kind = "ok" => genai_config.api_key
        /\ Issue(h, GenerateCall(Prompt(request[h], weather_data[h], web_results[h],
                                        transport_options[h]), answer))
        /\ Finish(h, GenerationResult(request[h].source, answer, web_results[h],
                                      weather_data[h], transport_options[h]))
    /\ UNCHANGED <<env, genai_config, op, request, web_results, transport_options, weather_data,
                   response, dayvars, sumvars>>

----------------------------------------------------------------------------
(* main.create_itinerary, POST /generate_itinerary: what the endpoint makes *)
(* of the outcome of generate_itinerary (lines 108-149)                     *)

\* itinerary.get(key, default)
GetOr(result, key, default) == IF HasKey(result, key) THEN result[key] ELSE default

\* Faulty variant: source and transportation are added whether or not a source
\* was supplied.
create_itinerary_response_always_source(travel_request, outcome) ==
    IF outcome.kind = "raise"
    THEN Http500("Itinerary generation failed", outcome.exc)
    ELSE LET result == outcome.value
             success ==
                 [status |-> "success",
                  destination |-> travel_request.destination,
                  itinerary |->
                      [ai_generated |-> GetOr(result, "ai_generated_itinerary",
                                              "No detailed itinerary available"),
                       web_context |-> GetOr(result, "web_search_context", <<>>)],
                  weather |-> GetOr(result, "weather_data", <<>>),
                  metadata |->
                      [budget |-> travel_request.budget,
                       duration |-> travel_request.duration,
                       interests |-> travel_request.interests,
                       start_date |-> travel_request.start_date]]
         IN  IF HasKey(result, "error")
             THEN Http(200, [status |-> "error",
                             message |-> GetOr(result, "error", "Itinerary generation failed"),
                             details |-> GetOr(result, "details", <<>>)])
             ELSE Http(200, success @@
                            [source |-> travel_request.source,
                             transportation |-> GetOr(result, "transport_options", <<>>)])

\* Faulty variant: an error object inside weather_data also makes the response an
\* error.
create_itinerary_response_weather_fatal(travel_request, outcome) ==
    IF outcome.kind = "raise"
    THEN Http500("Itinerary generation failed", outcome.exc)
    ELSE LET result == outcome.value
             success ==
                 [status |-> "success",
                  destination |-> travel_request.destination,
                  itinerary |->
                      [ai_generated |-> GetOr(result, "ai_generated_itinerary",
                                              "No detailed itinerary available"),
                       web_context |-> GetOr(result, "web_search_context", <<>>)],
                  weather |-> GetOr(result, "weather_data", <<>>),
                  metadata |->
                      [budget |-> travel_request.budget,
                       duration |-> travel_request.duration,
                       interests |-> travel_request.interests,
                       start_date |-> travel_request.start_date]]
         IN  IF HasKey(result, "error") \/ HasKey(GetOr(result, "weather_data", <<>>), "error")
             THEN Http(200, [status |-> "error",
                             message |-> GetOr(result, "error", "Itinerary generation failed"),
                             details |-> GetOr(result, "details", <<>>)])
             ELSE IF Truthy(travel_request.source)
             THEN Http(200, success @@
                            [source |-> travel_request.source,
                             transportation |-> GetOr(result, "transport_options", <<>>)])
             ELSE Http(200, success)

create_itinerary_response(travel_request, outcome) ==
    IF outcome.kind = "raise"
    THEN Http500("Itinerary generation failed", outcome.exc)
    ELSE LET result == outcome.value
             success ==
                 [status |-> "success",
                  destination |-> travel_request.destination,
                  itinerary |->
                      [ai_generated |-> GetOr(result, "ai_generated_itinerary",
                                              "No detailed itinerary available"),
                       web_context |-> GetOr(result, "web_search_context", <<>>)],
                  weather |-> GetOr(result, "weather_data", <<>>),
                  metadata |->
                      [budget |-> travel_request.budget,
                       duration |-> travel_request.duration,
                       interests |-> travel_request.interests,
                       start_date |-> travel_request.start_date]]
         IN  IF HasKey(result, "error")
             THEN Http(200, [status |-> "error",
                             message |-> GetOr(result, "error", "Itinerary generation failed"),
                             details |-> GetOr(result, "details", <<>>)])
             ELSE IF Truthy(travel_request.source)
             THEN Http(200, success @@
                            [source |-> travel_request.source,
                             transportation |-> GetOr(result, "transport_options", <<>>)])
             ELSE Http(200, success)

CreateItineraryRespond(h) ==
    /\ pc[h] = "respond"
    /\ Respond(h, create_itinerary_response(request[h], itinerary[h]))
    /\ UNCHANGED <<env, genai_config, op, request, calls, web_results, transport_options, weather_data,
                   itinerary, dayvars, sumvars>>

----------------------------------------------------------------------------
(* main.get_transportation_options, POST /transportation_options *)

\* Faulty variant: the source is looked up but its verdict is ignored.
TO_ValidateSource_ignored(h) ==
    /\ pc[h] = "to_validate_source"
    /\ \E answer \in LocationAnswers : Issue(h, LocationCall(request[h].source, answer))
    /\ Goto(h, "to_validate_destination")
    /\ UNCHANGED <<env, genai_config, op, request, web_results, transport_options, weather_data,
                   itinerary, response, dayvars, sumvars>>

TO_ValidateSource(h) ==
    /\ pc[h] = "to_validate_source"
    /\ \E answer \in LocationAnswers :
        /\ Issue(h, LocationCall(request[h].source, answer))
        /\ IF ~WebSearchAgent_validate_location(request[h].source, answer)
           THEN Respond(h, Http(200, [status |-> "error",
                                      message |-> "Invalid source location",
                                      details |-> InvalidLocationDetails(request[h].source)]))
           ELSE Goto(h, "to_validate_destination") /\ UNCHANGED response
    /\ UNCHANGED <<env, genai_config, op, request, web_results, transport_options, weather_data,
                   itinerary, dayvars, sumvars>>

TO_ValidateDestination(h) ==
    /\ pc[h] = "to_validate_destination"
    /\ \E answer \in LocationAnswers :
        /\ Issue(h, LocationCall(request[h].destination, answer))
        /\ IF ~WebSearchAgent_validate_location(request[h].destination, answer)
           THEN Respond(h, Http(200, [status |-> "error",
                                      message |-> "Invalid destination location",
                                      details |->
                                          InvalidLocationDetails(request[h].destination)]))
           ELSE Goto(h, "to_transport") /\ UNCHANGED response
    /\ UNCHANGED <<env, genai_config, op, request, web_results, transport_options, weather_data,
                   itinerary, dayvars, sumvars>>

TO_Transport(h) ==
    /\ pc[h] = "to_transport"
    /\ \E answer \in SearchAnswers :
        LET source == request[h].source
            destination == request[h].destination
            options == get_transport_options(env.SERPAPI_KEY, source, destination, answer)
        IN  /\ IF env.SERPAPI_KEY
               THEN Issue(h, SearchCall(TransportQuery(source, destination), 3, answer))
               ELSE UNCHANGED calls
            /\ transport_options' = [transport_options EXCEPT ![h] = options]
            /\ Respond(h, Http(200, [status |-> "success",
                                     source |-> source,
                                     destination |-> destination,
                                     transportation_options |-> options]))
    /\ UNCHANGED <<env, genai_config, op, request, web_results, weather_data, itinerary, dayvars, sumvars>>

----------------------------------------------------------------------------
(* main.validate_location, POST /validate_location *)

\* Only a dict has .get; on a bool the attribute lookup raises AttributeError.
HasGet(value) == value \notin BOOLEAN

VL_Validate(h) ==
    /\ pc[h] = "vl_validate"
    /\ \E answer \in LocationAnswers :
        LET location == request[h].location
            validation_result == WebSearchAgent_validate_location(location, answer)
        IN  /\ Issue(h, LocationCall(location, answer))
            /\ IF HasGet(validation_result)
               THEN Respond(h, Http(200,
                        [status |-> "success",
                         location |-> location,
                         valid |-> IF HasKey(validation_result, "valid")
                                   THEN validation_result.valid ELSE FALSE,
                         reason |-> IF HasKey(validation_result, "reason")
                                    THEN validation_result.reason ELSE ""]))
               ELSE Respond(h, Http500("Location validation failed", "AttributeError"))
    /\ UNCHANGED <<env, genai_config, op, request, web_results, transport_options, weather_data,
                   itinerary, dayvars, sumvars>>

----------------------------------------------------------------------------
(* Specification of the handlers: one request, any entry point *)

Step(h) ==
    \/ Call_generate_itinerary(h)
    \/ Post_generate_itinerary(h)
    \/ Post_transportation_options(h)
    \/ Post_validate_location(h)
    \/ Construct(h)
    \/ ValidateDestination(h)
    \/ ValidateSource(h)
    \/ WebSearch(h)
    \/ TransportOptions(h)
    \/ Weather(h)
    \/ Generate(h)
    \/ CreateItineraryRespond(h)
    \/ TO_ValidateSource(h)
    \/ TO_ValidateDestination(h)
    \/ TO_Transport(h)
    \/ VL_Validate(h)

Next == \E h \in MainHandlers : Step(h)

Spec == Init /\ [][Next]_vars

----------------------------------------------------------------------------
(* Specification of two concurrent requests: both handlers run            *)
(* generate_itinerary and their steps interleave in every order.  To keep  *)
(* the product of the two runs small the trips last one day and the        *)
(* providers answer from a sample of their answers.                        *)

ConcurrentSources == {None, "Pune"}

LocationSample ==
    {a \in LocationAnswers : a.kind = "RequestException" \/ (a.kind = "ok" /\ Len(a.json) = 1)}

SearchSample ==
    {a \in SearchAnswers :
        a.kind = "ok" /\ HasKey(a.json, "organic_results")
                     /\ Len(a.json.organic_results) <= 1}

ForecastSample ==
    {a \in ForecastAnswers :
        /\ a.kind = "ok"
        /\ \/ HasKey(a.json, "error")
           \/ /\ HasKey(a.json, "location")
              /\ HasKey(a.json, "forecast")
              /\ Len(a.json.forecast.forecastday) = 1}

SampledCall(call) ==
    IF call.api = "location_search" THEN call.answer \in LocationSample
    ELSE IF call.api = "web_search" THEN call.answer \in SearchSample
    ELSE IF call.api = "forecast" THEN call.answer \in ForecastSample
    ELSE TRUE

\* The step just taken stays within the sample.
Sampled ==
    \A h \in Handlers :
        /\ op'[h] = "generate_itinerary" =>
               request'[h].duration = 1 /\ request'[h].source \in ConcurrentSources
        /\ \A i \in 1..Len(calls'[h]) : SampledCall(calls'[h][i])

ConcurrentStep(h) ==
    \/ Call_generate_itinerary(h) /\ Sampled
    \/ Construct(h) /\ Sampled
    \/ ValidateDestination(h) /\ Sampled
    \/ ValidateSource(h) /\ Sampled
    \/ WebSearch(h) /\ Sampled
    \/ TransportOptions(h) /\ Sampled
    \/ Weather(h) /\ Sampled
    \/ Generate(h) /\ Sampled

InitConcurrent == Init

NextConcurrent == \E h \in Handlers : ConcurrentStep(h)

SpecConcurrent == InitConcurrent /\ [][NextConcurrent]_vars

----------------------------------------------------------------------------
(* Specification of the per-day step: one forecast day drawn from bounded *)
(* sets, then the loop body of format_weather_summary applied to it        *)

cond_blowing_snow == <<"B", "l", "o", "w", "i", "n", "g", " ", "s", "n", "o", "w">>

cond_clear == <<"C", "l", "e", "a", "r">>

cond_windy_upper == <<"W", "I", "N", "D", "Y">>

cond_drizzle == <<"L", "i", "g", "h", "t", " ", "d", "r", "i", "z", "z", "l", "e">>

cond_snow_showers == <<"S", "n", "o", "w", " ", "S", "h", "o", "w", "e", "r", "s">>

cond_thunderstorm == <<"T", "h", "u", "n", "d", "e", "r", "s", "t", "o", "r", "m">>

cond_overcast == <<"O", "v", "e", "r", "c", "a", "s", "t">>

DayConditions ==
    {cond_sunny, cond_partly_cloudy, cond_rain_wind, cond_blowing_snow, cond_clear,
     cond_windy_upper, cond_drizzle, cond_snow_showers, cond_thunderstorm, cond_overcast}

\* one decimal of a degree around every tier boundary
DayTemps ==
    {Deg(-5), Deg(0) - Tenths(1), Deg(0), Deg(0) + Tenths(1),
     Deg(10) - Tenths(1), Deg(10), Deg(10) + Tenths(1),
     Deg(20) - Tenths(1), Deg(20), Deg(20) + Tenths(1),
     Deg(25) - Tenths(1), Deg(25), Deg(25) + Tenths(1), Deg(30)}

DayPrecips == {Mm(0), Mm(5) - 1, Mm(5), Mm(6)}

DayInputs ==
    {fd \in [date : {<<"day", 1>>}, condition : DayConditions, maxtemp_c : DayTemps,
             mintemp_c : DayTemps, totalprecip_mm : DayPrecips] :
        fd.mintemp_c <= fd.maxtemp_c}

InitDay ==
    /\ env = AllKeys
    /\ InitHandlers
    /\ forecast_day \in DayInputs
    /\ midpoint = Midpoint(forecast_day.maxtemp_c, forecast_day.mintemp_c)
    /\ daily = NoDaily
    /\ IdleSummaryVars

SummarizeDay ==
    /\ daily = NoDaily
    /\ midpoint' \in Midpoints(forecast_day.maxtemp_c, forecast_day.mintemp_c)
    /\ daily' = DailyEntry(forecast_day, midpoint')
    /\ UNCHANGED <<pipevars, forecast_day, sumvars>>

NextDay == SummarizeDay

SpecDay == InitDay /\ [][NextDay]_vars

----------------------------------------------------------------------------
(* Specification of the conditions summary: the condition texts of the    *)
(* selected days drawn from bounded sets, then _summarize_conditions       *)
(* applied to them.  format_weather_summary divides by the number of days  *)
(* before it calls _summarize_conditions, so the list is never empty.      *)

MaxTripDays == 4        \* days whose conditions are summarized at most

cond_rain == <<"R", "a", "i", "n">>

cond_cloudy == <<"C", "l", "o", "u", "d", "y">>

cond_mist == <<"M", "i", "s", "t">>

SummaryConditions == {cond_sunny, cond_rain, cond_cloudy, cond_mist}

InitConditions ==
    /\ env = AllKeys
    /\ InitHandlers
    /\ IdleDayVars
    /\ trip_conditions \in SeqsUpTo(SummaryConditions, MaxTripDays) \ {<<>>}
    /\ conditions_summary = NoSummary

SummarizeConditions ==
    /\ conditions_summary = NoSummary
    /\ conditions_summary' = summarize_conditions(trip_conditions)
    /\ UNCHANGED <<pipevars, dayvars, trip_conditions>>

NextConditions == SummarizeConditions

SpecConditions == InitConditions /\ [][NextConditions]_vars

----------------------------------------------------------------------------
(* Properties.  They are stated over the call log (what was sent, what    *)
(* the provider answered) and over what the handler returned.              *)

\* The provider did not confirm the location: no match, or the call failed.
Rejects(answer) == answer.kind # "ok" \/ answer.json = <<>>

\* The forecast call failed, or its payload carries an error marker.
ForecastFailed(answer) == answer.kind # "ok" \/ HasKey(answer.json, "error")

CallsTo(h, api) == {i \in 1..Len(calls[h]) : calls[h][i].api = api}

Assembling(h) == op[h] = "generate_itinerary"

Returned(h) == pc[h] = "done" /\ itinerary[h].kind = "return"

ReturnedError(h, message) ==
    /\ Returned(h)
    /\ HasKey(itinerary[h].value, "error")
    /\ itinerary[h].value.error = message

ReturnedSuccess(h) ==
    /\ Returned(h)
    /\ HasKey(itinerary[h].value, "ai_generated_itinerary")
    /\ ~HasKey(itinerary[h].value, "error")

\* C1: in generate_comprehensive_itinerary the first outbound call is the
\* destination's location search, and when the provider does not confirm the
\* destination (no match or a provider error) the call returns the error
\* 'Invalid destination' and that search stays the only outbound call: no source
\* validation, web search, transport search, forecast fetch or generator call.
C1_InvalidDestinationShortCircuits ==
    \A h \in Handlers :
        (Assembling(h) /\ Len(calls[h]) >= 1) =>
            /\ calls[h][1].api = "location_search"
            /\ calls[h][1].q = request[h].destination
            /\ Rejects(calls[h][1].answer) =>
                /\ ReturnedError(h, "Invalid destination")
                /\ Len(calls[h]) = 1

C1_Witness ==
    \E h \in Handlers :
        /\ Assembling(h)
        /\ Len(calls[h]) = 1
        /\ calls[h][1].answer.kind = "RequestException"
        /\ ReturnedError(h, "Invalid destination")

\* C2: with a non-empty source and a confirmed destination the source's location
\* search is the second outbound call, right after the destination's; when the
\* provider does not confirm the source the call returns the error 'Invalid source
\* location' with no further outbound call.  With the source absent or empty, no
\* location search other than the destination's is ever issued.
C2_SourceValidatedSecondOrNotAtAll ==
    \A h \in Handlers :
        Assembling(h) =>
            LET source == request[h].source
                given == source # None /\ source # ""
                n == Len(calls[h])
            IN  /\ ~given => Cardinality(CallsTo(h, "location_search")) <= 1
                /\ (given /\ n = 1 /\ ~Rejects(calls[h][1].answer)) =>
                       pc[h] = "validate_source"
                /\ (given /\ n >= 2) =>
                       /\ calls[h][1].q = request[h].destination
                       /\ ~Rejects(calls[h][1].answer)
                       /\ calls[h][2].api = "location_search"
                       /\ calls[h][2].q = source
                       /\ Rejects(calls[h][2].answer) =>
                            /\ ReturnedError(h, "Invalid source location")
                            /\ n = 2

C2_Witness ==
    \E h \in Handlers :
        /\ Assembling(h)
        /\ request[h].source = "Pune"
        /\ Len(calls[h]) = 2
        /\ calls[h][2].q = "Pune"
        /\ Rejects(calls[h][2].answer)
        /\ ReturnedError(h, "Invalid source location")

\* C3: once the forecast call of a request has failed or answered with an error
\* marker, the only thing left is the generator call (it is the next and last
\* outbound call), and when the generator succeeds the result is the success shape:
\* ai_generated_itinerary, no top-level error, and a weather_data object that has
\* an error key and no daily forecasts.
C3_WeatherFailureNotFatal ==
    \A h \in Handlers :
        Assembling(h) =>
            \A i \in CallsTo(h, "forecast") :
                ForecastFailed(calls[h][i].answer) =>
                    /\ pc[h] \in {"generate", "done"}
                    /\ HasKey(weather_data[h], "error")
                    /\ pc[h] = "done" =>
                        /\ Len(calls[h]) = i + 1
                        /\ calls[h][i + 1].api = "generate_content"
                        /\ calls[h][i + 1].answer.kind = "ok" =>
                            /\ ReturnedSuccess(h)
                            /\ HasKey(itinerary[h].value.weather_data, "error")
                            /\ ~HasKey(itinerary[h].value.weather_data, "daily_forecasts")

C3_Witness ==
    \E h \in Handlers :
        /\ Assembling(h)
        /\ \E i \in CallsTo(h, "forecast") : calls[h][i].answer.kind = "RequestException"
        /\ ReturnedSuccess(h)
        /\ HasKey(itinerary[h].value.weather_data, "error")

\* C4: when the generator call fails, generate_comprehensive_itinerary returns
\* (does not raise) exactly {error: 'Itinerary generation failed', details:
\* <message>}: no other key, and an error value that is neither validation error.
C4_GenerationFailureShape ==
    \A h \in Handlers :
        Assembling(h) =>
            \A i \in CallsTo(h, "generate_content") :
                calls[h][i].answer.kind # "ok" =>
                    /\ Returned(h)
                    /\ DOMAIN itinerary[h].value = {"error", "details"}
                    /\ itinerary[h].value.error = "Itinerary generation failed"
                    /\ itinerary[h].value.details = calls[h][i].answer.message
                    /\ itinerary[h].value.error
                          \notin {"Invalid destination", "Invalid source location"}

C4_Witness ==
    \E h \in Handlers :
        /\ Assembling(h)
        /\ \E i \in CallsTo(h, "generate_content") : calls[h][i].answer.kind = "Exception"
        /\ ReturnedError(h, "Itinerary generation failed")

\* C5: validate_location always yields a boolean, and it is true exactly when the
\* provider's location search answered with at least one match: an empty result
\* set and a failed provider call both give false.
C5_ValidatorFailsClosed ==
    \A h \in Handlers :
        \A i \in CallsTo(h, "location_search") :
            /\ calls[h][i].valid \in BOOLEAN
            /\ calls[h][i].valid <=>
                  (calls[h][i].answer.kind = "ok" /\ Len(calls[h][i].answer.json) >= 1)

C5_Witness ==
    \E h \in Handlers :
        \E i \in CallsTo(h, "location_search") :
            /\ calls[h][i].answer.kind = "RequestException"
            /\ calls[h][i].valid = FALSE

\* The destination search of the assembler: the web search with limit 5.
GuideSearches(h) == {i \in CallsTo(h, "web_search") : calls[h][i].num = 5}

\* C6: when the destination web search fails with a transport error,
\* perform_web_search hands back the empty sequence and nothing is raised: the
\* pipeline goes on, a request that finishes has issued the forecast fetch and the
\* generator call after that search, and on generator success the result is a
\* success with an empty web_search_context.
C6_SearchFailureDegrades ==
    \A h \in Handlers :
        Assembling(h) =>
            \A i \in GuideSearches(h) :
                calls[h][i].answer.kind = "RequestException" =>
                    /\ web_results[h] = <<>>
                    /\ itinerary[h].kind # "raise"
                    /\ pc[h] \in {"transport_options", "weather", "generate", "done"}
                    /\ pc[h] = "done" =>
                        /\ \E j \in CallsTo(h, "forecast") : j > i
                        /\ calls[h][Len(calls[h])].api = "generate_content"
                        /\ calls[h][Len(calls[h])].answer.kind = "ok" =>
                            /\ ReturnedSuccess(h)
                            /\ itinerary[h].value.web_search_context = <<>>

C6_Witness ==
    \E h \in Handlers :
        /\ Assembling(h)
        /\ \E i \in GuideSearches(h) : calls[h][i].answer.kind = "RequestException"
        /\ ReturnedSuccess(h)
        /\ itinerary[h].value.web_search_context = <<>>

Transporting(h) == op[h] = "transportation_options"

\* C7: at POST /transportation_options the first outbound call is the source's
\* location search; when the provider does not confirm the source the response is
\* the error body with message 'Invalid source location' and the search provider
\* is not called; and the search provider is called only as the third call, after
\* the source and then the destination were both confirmed.
C7_TransportEndpointValidatesFirst ==
    \A h \in Handlers :
        Transporting(h) =>
            /\ Len(calls[h]) >= 1 =>
                /\ calls[h][1].api = "location_search"
                /\ calls[h][1].q = request[h].source
                /\ Rejects(calls[h][1].answer) =>
                    /\ pc[h] = "done"
                    /\ response[h].kind = "http"
                    /\ response[h].body.status = "error"
                    /\ response[h].body.message = "Invalid source location"
                    /\ CallsTo(h, "web_search") = {}
            /\ \A i \in CallsTo(h, "web_search") :
                /\ i = 3
                /\ calls[h][1].q = request[h].source
                /\ ~Rejects(calls[h][1].answer)
                /\ calls[h][2].api = "location_search"
                /\ calls[h][2].q = request[h].destination
                /\ ~Rejects(calls[h][2].answer)

C7_Witness ==
    \E h \in Handlers :
        /\ Transporting(h)
        /\ Len(calls[h]) = 1
        /\ Rejects(calls[h][1].answer)
        /\ response[h].kind = "http"
        /\ response[h].body.message = "Invalid source location"

\* C8: POST /validate_location answers every looked-up location with a body
\* {status, location, valid, reason} whose valid tells whether the provider
\* confirmed the location, and never with an HTTP 500.
C8_ValidateEndpointAnswers ==
    \A h \in Handlers :
        (op[h] = "validate_location" /\ pc[h] = "done" /\ Len(calls[h]) = 1) =>
            /\ response[h].status_code # 500
            /\ DOMAIN response[h].body = {"status", "location", "valid", "reason"}
            /\ response[h].body.location = request[h].location
            /\ response[h].body.valid = ~Rejects(calls[h][1].answer)

Summarized == HasKey(daily, "date")

Items(list) == {list[i] : i \in 1..Len(list)}

\* C9: every keyword group that occurs in the lower-cased condition text
\* (rain/drizzle/shower, snow, sun/clear, wind) has its extras in the day's
\* clothing list, whatever other group matches too.
C9_ConditionExtrasAdditive ==
    Summarized =>
        LET c == lower(forecast_day.condition)
            clothing == Items(daily.clothing_recommendations)
        IN  /\ (Contains(kw_rain, c) \/ Contains(kw_drizzle, c) \/ Contains(kw_shower, c))
                   => Items(RainExtras) \subseteq clothing
            /\ Contains(kw_snow, c) => Items(SnowExtras) \subseteq clothing
            /\ (Contains(kw_sun, c) \/ Contains(kw_clear, c))
                   => Items(SunExtras) \subseteq clothing
            /\ Contains(kw_wind, c) => Items(WindExtras) \subseteq clothing

\* The five tiers of the midpoint t = (max + min) / 2.
TierLists ==
    <<ClothingBelow0, ClothingBelow10, ClothingBelow20, ClothingBelow25, ClothingFrom25>>

InTier(k, t) ==
    IF k = 1 THEN t < Deg(0)
    ELSE IF k = 2 THEN Deg(0) <= t /\ t < Deg(10)
    ELSE IF k = 3 THEN Deg(10) <= t /\ t < Deg(20)
    ELSE IF k = 4 THEN Deg(20) <= t /\ t < Deg(25)
    ELSE Deg(25) <= t

StartsWith(list, prefix) ==
    Len(list) >= Len(prefix) /\ SubSeq(list, 1, Len(prefix)) = prefix

\* C10: the midpoint t = (max + min) / 2 the code computes for a day lies in
\* exactly one of the tiers t < 0, 0 <= t < 10, 10 <= t < 20, 20 <= t < 25,
\* t >= 25, and the day's clothing list starts with that tier's base wardrobe and
\* with no other tier's: each boundary value belongs to the warmer tier.
C10_ClothingTiersPartition ==
    Summarized =>
        /\ Cardinality({k \in 1..5 : InTier(k, midpoint)}) = 1
        /\ \A k \in 1..5 :
               InTier(k, midpoint) <=>
                   StartsWith(daily.clothing_recommendations, TierLists[k])

C10_Witness ==
    /\ Summarized
    /\ midpoint = Deg(20)
    /\ forecast_day.maxtemp_c # forecast_day.mintemp_c
    /\ StartsWith(daily.clothing_recommendations, ClothingBelow25)

\* The day was treated as good weather: outdoor activities are recommended and
\* the indoor list is the fallback.
OutdoorDay ==
    /\ StartsWith(daily.activity_recommendations, GeneralOutdoor)
    /\ daily.alternative_activities = IndoorAlternatives

\* C11: a day is treated as good weather exactly when its precipitation is below
\* 5 mm and its lower-cased condition text contains neither "rain" nor "storm",
\* whatever its temperatures: 4.9 mm with "Partly cloudy" is good weather, 5 mm
\* and 6 mm with the same text are not.
C11_GoodWeatherRule ==
    Summarized =>
        LET c == lower(forecast_day.condition)
        IN  OutdoorDay <=>
                /\ forecast_day.totalprecip_mm < Mm(5)
                /\ ~Contains(kw_rain, c)
                /\ ~Contains(kw_storm, c)

C11_Witness ==
    /\ Summarized
    /\ forecast_day.totalprecip_mm = Mm(5) - 1
    /\ forecast_day.condition = cond_partly_cloudy
    /\ OutdoorDay

\* The forecast call answered with a payload that has no error marker, names its
\* location and carries at least one day.
ForecastUsable(answer) ==
    /\ answer.kind = "ok"
    /\ ~HasKey(answer.json, "error")
    /\ HasKey(answer.json, "location")
    /\ HasKey(answer.json, "forecast")
    /\ Len(answer.json.forecast.forecastday) >= 1

ConditionsSummarized == conditions_summary # NoSummary

Occurrences(c) ==
    Cardinality({i \in 1..Len(trip_conditions) : trip_conditions[i] = c})

FirstSeen(c) ==
    CHOOSE i \in 1..Len(trip_conditions) :
        trip_conditions[i] = c /\ \A j \in 1..(i - 1) : trip_conditions[j] # c

DistinctConditions == {trip_conditions[i] : i \in 1..Len(trip_conditions)}

\* The distinct conditions, most frequent first; of two equally frequent ones the
\* one met first in the list comes first.
Ranking ==
    CHOOSE r \in [1..Cardinality(DistinctConditions) -> DistinctConditions] :
        \A i, j \in DOMAIN r :
            i < j =>
                \/ Occurrences(r[i]) > Occurrences(r[j])
                \/ /\ Occurrences(r[i]) = Occurrences(r[j])
                   /\ FirstSeen(r[i]) < FirstSeen(r[j])

\* C13: the conditions summary of a list of condition texts is "Consistently X
\* throughout your trip" when one distinct condition X occurs; else "Mostly X with
\* some <the others>" when the most frequent condition X covers at least half of
\* the days; else "Variable conditions including <the first three>"; the listed
\* conditions are joined with ", " in descending frequency, ties in the order of
\* first encounter.
C13_ConditionsSummaryText ==
    ConditionsSummarized =>
        LET r == [i \in 1..Cardinality(DistinctConditions) |-> Ranking[i]]
        IN  conditions_summary =
                IF Len(r) = 1
                THEN txt_consistently \o r[1] \o txt_throughout
                ELSE IF 2 * Occurrences(r[1]) >= Len(trip_conditions)
                THEN txt_mostly \o r[1] \o txt_with_some \o Join(SubSeq(r, 2, Len(r)))
                ELSE txt_variable \o Join(SubSeq(r, 1, IF Len(r) < 3 THEN Len(r) ELSE 3))

C13_Witness ==
    /\ trip_conditions = <<cond_sunny, cond_sunny, cond_rain, cond_cloudy>>
    /\ conditions_summary =
          <<"M", "o", "s", "t", "l", "y", " ", "S", "u", "n", "n", "y", " ", "w", "i", "t",
            "h", " ", "s", "o", "m", "e", " ", "R", "a", "i", "n", ",", " ", "C", "l", "o",
            "u", "d", "y">>

\* The transport search of the assembler: the web search with limit 3.
TransportSearches(h) == {i \in CallsTo(h, "web_search") : calls[h][i].num = 3}

SourceGiven(h) == request[h].source # None /\ request[h].source # ""

\* The assembler is past the point where the transport search is decided.
PastTransport(h) ==
    \/ pc[h] \in {"weather", "generate"}
    \/ pc[h] = "done" /\ CallsTo(h, "forecast") # {}

\* C14: in generate_comprehensive_itinerary a web search with limit 3 is issued
\* only for a request with a non-empty source: it asks how to travel from the
\* source to the destination and comes right after the destination search (limit
\* 5), which follows the two confirmed location searches.  A request with a
\* non-empty source that gets past that point has issued exactly one; a request
\* without a source never issues one and its successful result has
\* transport_options = <<>>.
C14_TransportSearchIffSource ==
    \A h \in Handlers :
        Assembling(h) =>
            /\ \A i \in TransportSearches(h) :
                   /\ SourceGiven(h)
                   /\ i = 4
                   /\ calls[h][i].q =
                         <<"How to travel from ", request[h].source, " to ",
                           request[h].destination, " transportation options">>
                   /\ calls[h][1].api = "location_search" /\ ~Rejects(calls[h][1].answer)
                   /\ calls[h][2].api = "location_search" /\ ~Rejects(calls[h][2].answer)
                   /\ calls[h][3].api = "web_search" /\ calls[h][3].num = 5
            /\ PastTransport(h) =>
                   Cardinality(TransportSearches(h)) = IF SourceGiven(h) THEN 1 ELSE 0
            /\ ~SourceGiven(h) =>
                   /\ TransportSearches(h) = {}
                   /\ ReturnedSuccess(h) => itinerary[h].value.transport_options = <<>>

C14_Witness ==
    \E h \in Handlers :
        /\ Assembling(h)
        /\ request[h].source = "Pune"
        /\ 4 \in TransportSearches(h)
        /\ calls[h][3].num = 5
        /\ ReturnedSuccess(h)

\* POST /generate_itinerary has answered with its success body.
AnsweredSuccess(h) ==
    /\ op[h] = "create_itinerary"
    /\ pc[h] = "done"
    /\ response[h].kind = "http"
    /\ response[h].status_code = 200
    /\ response[h].body.status = "success"

\* C15: the success body of POST /generate_itinerary has the keys status,
\* destination, itinerary (with ai_generated and web_context), weather and
\* metadata (with budget, duration, interests and start_date), and in addition
\* source and transportation exactly when the request carried a non-empty source.
C15_SuccessResponseKeys ==
    \A h \in Handlers :
        AnsweredSuccess(h) =>
            LET body == response[h].body
                always == {"status", "destination", "itinerary", "weather", "metadata"}
            IN  /\ DOMAIN body =
                      IF SourceGiven(h) THEN always \cup {"source", "transportation"}
                      ELSE always
                /\ DOMAIN body.itinerary = {"ai_generated", "web_context"}
                /\ DOMAIN body.metadata = {"budget", "duration", "interests", "start_date"}
                /\ SourceGiven(h) => body.source = request[h].source

C15_Witness ==
    \E h \in Handlers :
        /\ AnsweredSuccess(h)
        /\ request[h].source = "Pune"
        /\ "transportation" \in DOMAIN response[h].body

\* The provider answers a handler received, in the order of its calls.
Answers(h) == [i \in 1..Len(calls[h]) |-> calls[h][i].answer]

\* generate_itinerary run from start to end on its own: what it returns or raises
\* for a request, the environment's keys and the answers its calls receive.
generate_itinerary_alone(keys, travel_request, answers) ==
    LET source == travel_request.source
        destination == travel_request.destination
        given == Truthy(source)
        search_at == IF given THEN 3 ELSE 2
        forecast_at == IF given THEN 5 ELSE 3
    IN  IF ~keys.WEATHER_API_KEY THEN Raise("ValueError")
        ELSE IF ~WebSearchAgent_validate_location(destination, answers[1])
        THEN Ret([error |-> "Invalid destination",
                  details |-> InvalidLocationDetails(destination)])
        ELSE IF given /\ ~WebSearchAgent_validate_location(source, answers[2])
        THEN Ret([error |-> "Invalid source location",
                  details |-> InvalidLocationDetails(source)])
        ELSE IF ~keys.SERPAPI_KEY THEN Raise("ValueError")
        ELSE LET web == perform_web_search(TRUE, GuideQuery(travel_request), 5,
                                           answers[search_at]).value
                 transport ==
                     IF given
                     THEN get_transport_options(TRUE, source, destination,
                                                answers[search_at + 1])
                     ELSE <<>>
                 weather == get_weather_data(destination, travel_request.duration,
                                             answers[forecast_at])
             IN  GenerationResult(source, answers[forecast_at + 1], web, weather, transport)

\* C16: whatever the other request does in between, a request that has finished
\* holds the outcome a run on its own gives for its own request and the answers
\* its own calls received; its location searches ask about its own destination
\* and source only; and the generator configuration it meets is the one its own
\* constructor set.
C16_RequestsIsolated ==
    \A h \in Handlers :
        Assembling(h) =>
            /\ \A i \in CallsTo(h, "location_search") :
                   calls[h][i].q \in {request[h].destination, request[h].source}
            /\ pc[h] \notin {"idle", "construct"} =>
                   genai_config = [configured |-> TRUE, api_key |-> env.GENAI_API_KEY]
            /\ pc[h] = "done" =>
                   itinerary[h] = generate_itinerary_alone(env, request[h], Answers(h))

C16_Witness ==
    \E h, g \in Handlers :
        /\ h # g
        /\ ReturnedSuccess(h)
        /\ ReturnedSuccess(g)
        /\ request[h].source # request[g].source
        /\ itinerary[h].value.web_search_context # itinerary[g].value.web_search_context
        /\ HasKey(itinerary[h].value.weather_data, "error")
        /\ ~HasKey(itinerary[g].value.weather_data, "error")

\* C17 as stated: for a request with a source the forecast fetch is issued before
\* the transport search (validate, search, weather, transport, generate), so
\* every transport search has a forecast fetch before it, and the generator call
\* is the last call.
C17_WeatherBeforeTransport ==
    \A h \in Handlers :
        (Assembling(h) /\ SourceGiven(h)) =>
            /\ \A i \in TransportSearches(h) : \E j \in CallsTo(h, "forecast") : j < i
            /\ \A i \in CallsTo(h, "generate_content") : i = Len(calls[h])

\* The calls of a request with a source, in the order of the code.
CallOrder ==
    <<"location_search", "location_search", "web_search", "web_search", "forecast",
      "generate_content">>

\* C17 amended: for a request with a source the outbound calls are issued one
\* after the other in the order destination validation, source validation,
\* destination search (limit 5), transport search (limit 3), forecast fetch,
\* generator call: the transport search comes before the forecast fetch, and the
\* generator call is last.
C17_CallOrder ==
    \A h \in Handlers :
        (Assembling(h) /\ SourceGiven(h)) =>
            /\ Len(calls[h]) <= Len(CallOrder)
            /\ \A i \in 1..Len(calls[h]) : calls[h][i].api = CallOrder[i]
            /\ Len(calls[h]) >= 1 => calls[h][1].q = request[h].destination
            /\ Len(calls[h]) >= 2 => calls[h][2].q = request[h].source
            /\ Len(calls[h]) >= 3 => calls[h][3].num = 5
            /\ Len(calls[h]) >= 4 => calls[h][4].num = 3
            /\ \A i \in TransportSearches(h) : \A j \in CallsTo(h, "forecast") : i < j
            /\ \A i \in CallsTo(h, "generate_content") : i = Len(calls[h]) /\ pc[h] = "done"

C17_Witness ==
    \E h \in Handlers :
        /\ Assembling(h)
        /\ SourceGiven(h)
        /\ Len(calls[h]) = 6
        /\ calls[h][4].api = "web_search"
        /\ calls[h][5].api = "forecast"
        /\ ReturnedSuccess(h)

\* The step of the pipeline an outbound call belongs to.
Stage(h, call) ==
    IF call.api = "location_search"
    THEN IF call.q = request[h].destination THEN 1 ELSE 2
    ELSE IF call.api = "web_search"
    THEN IF call.num = 5 THEN 3 ELSE 4
    ELSE IF call.api = "forecast" THEN 5
    ELSE 6

\* C18: whatever the providers answer, the outbound calls of one run of
\* generate_comprehensive_itinerary belong to strictly later and later steps
\* (destination validation, source validation, destination search, transport
\* search, forecast fetch, generator call): no step's call is issued twice and no
\* call of an earlier step follows a call of a later one.
C18_NothingRetried ==
    \A h \in Handlers :
        Assembling(h) =>
            /\ \A i, j \in 1..Len(calls[h]) :
                   i < j => Stage(h, calls[h][i]) < Stage(h, calls[h][j])
            /\ \A k \in 1..6 :
                   Cardinality({i \in 1..Len(calls[h]) : Stage(h, calls[h][i]) = k}) <= 1

C18_Witness ==
    \E h \in Handlers :
        /\ Assembling(h)
        /\ pc[h] = "done"
        /\ Len(calls[h]) = 6
        /\ calls[h][3].answer.kind = "RequestException"
        /\ calls[h][4].answer.kind = "RequestException"
        /\ calls[h][5].answer.kind = "RequestException"
        /\ calls[h][6].answer.kind = "Exception"
        /\ ReturnedError(h, "Itinerary generation failed")

\* The day's precipitation and condition text make it a good-weather day.
GoodWeatherDay ==
    /\ forecast_day.totalprecip_mm < Mm(5)
    /\ ~Contains(kw_rain, lower(forecast_day.condition))
    /\ ~Contains(kw_storm, lower(forecast_day.condition))

\* C19: on a good-weather day the recommended activities are the five general
\* outdoor activities followed by the list of exactly one temperature tier of the
\* average temperature as computed (above 20: beach and water; above 10 up to 20:
\* hiking and biking; 10 or below: winter and scenic) and the alternatives are the
\* fixed indoor list; on any other day the recommended activities are the fixed
\* indoor list and there are no alternatives.
C19_ActivityLists ==
    Summarized =>
        IF GoodWeatherDay
        THEN /\ daily.activity_recommendations =
                   GeneralOutdoor \o
                       (IF midpoint > Deg(20) THEN WarmOutdoor
                        ELSE IF midpoint > Deg(10) /\ midpoint <= Deg(20) THEN MildOutdoor
                        ELSE ColdOutdoor)
             /\ Len(GeneralOutdoor) = 5
             /\ daily.alternative_activities = IndoorAlternatives
        ELSE /\ daily.activity_recommendations = IndoorAlternatives
             /\ daily.alternative_activities = <<>>

C19_Witness ==
    /\ Summarized
    /\ GoodWeatherDay
    /\ midpoint = Deg(20)
    /\ daily.activity_recommendations = GeneralOutdoor \o MildOutdoor
    /\ daily.activity_recommendations[1] = "Sightseeing tours"
    /\ daily.activity_recommendations[6] = "Hiking"
    /\ daily.alternative_activities = IndoorAlternatives

\* The payload has no error marker and no forecast day.
NoDays(answer) ==
    /\ answer.kind = "ok"
    /\ ~HasKey(answer.json, "error")
    /\ (HasKey(answer.json, "forecast") => answer.json.forecast.forecastday = <<>>)

ErrorObject(w) == DOMAIN w = {"error"}

\* A summary whose day count, daily entries and averages agree.
WellFormedSummary(w) ==
    /\ DOMAIN w = {"location", "forecast_days", "avg_max_temp_c", "avg_min_temp_c",
                   "conditions_summary", "daily_forecasts"}
    /\ w.forecast_days >= 1
    /\ w.forecast_days = Len(w.daily_forecasts)
    /\ w.avg_max_temp_c.count = w.forecast_days
    /\ w.avg_min_temp_c.count = w.forecast_days
    /\ w.avg_max_temp_c.sum =
          Sum([i \in 1..Len(w.daily_forecasts) |-> w.daily_forecasts[i].max_temp_c])
    /\ w.avg_min_temp_c.sum =
          Sum([i \in 1..Len(w.daily_forecasts) |-> w.daily_forecasts[i].min_temp_c])

\* C20: whatever the forecast call answers, get_weather_data hands the assembler
\* a value and the run goes on to the generator: the value is either an error
\* object or a summary with at least one day whose forecast_days is the number of
\* its daily entries and whose averages are taken over those entries; a payload
\* without error marker and without forecast days gives an error object.
C20_WeatherDataWellFormed ==
    \A h \in Handlers :
        Assembling(h) =>
            \A i \in CallsTo(h, "forecast") :
                /\ pc[h] \in {"generate", "done"}
                /\ itinerary[h].kind # "raise"
                /\ ErrorObject(weather_data[h]) \/ WellFormedSummary(weather_data[h])
                /\ NoDays(calls[h][i].answer) => ErrorObject(weather_data[h])

C20_Witness ==
    \E h \in Handlers :
        /\ Assembling(h)
        /\ \E i \in CallsTo(h, "forecast") :
              /\ NoDays(calls[h][i].answer)
              /\ HasKey(calls[h][i].answer.json, "location")
              /\ HasKey(calls[h][i].answer.json, "forecast")
        /\ weather_data[h] =
              [error |-> <<"Weather data retrieval failed: ", "ZeroDivisionError">>]

\* POST /generate_itinerary has answered and the assembler returned a result.
AnsweredResult(h) ==
    /\ op[h] = "create_itinerary"
    /\ pc[h] = "done"
    /\ itinerary[h].kind = "return"

TopLevelErrors ==
    {"Invalid destination", "Invalid source location", "Itinerary generation failed"}

\* C21: when the assembler returns a result to POST /generate_itinerary, the body's
\* status is "error" exactly when the result has a top-level error key, which is
\* one of invalid destination, invalid source and generation failure and becomes
\* the message; a result without that key whose weather_data is an error object
\* is answered with status "success" and that error object as the weather field.
C21_ErrorStatusIffTopLevelError ==
    \A h \in Handlers :
        AnsweredResult(h) =>
            LET result == itinerary[h].value
                body == response[h].body
            IN  /\ response[h].status_code = 200
                /\ body.status \in {"error", "success"}
                /\ (body.status = "error") <=> HasKey(result, "error")
                /\ HasKey(result, "error") =>
                       /\ result.error \in TopLevelErrors
                       /\ body.message = result.error
                /\ (~HasKey(result, "error") /\ HasKey(weather_data[h], "error")) =>
                       /\ body.status = "success"
                       /\ result.weather_data = weather_data[h]
                       /\ body.weather = weather_data[h]

C21_Witness ==
    \E h \in Handlers :
        /\ AnsweredResult(h)
        /\ ~HasKey(itinerary[h].value, "error")
        /\ response[h].body.status = "success"
        /\ HasKey(response[h].body.weather, "error")

====
